---- MODULE Spec2Model ----
(***************************************************************************)
(* Model of app.py: the Streamlit front-end that polls the recommendation  *)
(* API's /status, extracts text from an upload, queries /recommend_images  *)
(* on Submit and keeps a module-global history list.                       *)
(*                                                                         *)
(* A run of main() goes through four steps in program order: the status   *)
(* check, the widgets of the Demo tab (with process_file), the Submit      *)
(* handler, the History tab.  pc is the position of the run; a step that   *)
(* raises ends the run.  The inputs are the widget values of the run, the  *)
(* outcomes of the two HTTP GETs and the reading of the wall clock.  The   *)
(* variable `run` is the observable record of the latest run: what was     *)
(* requested, what was shown with st.error, which exception (if any)       *)
(* escaped main(), and the inputs that the run consumed.                   *)
(***************************************************************************)
EXTENDS Naturals, Sequences, FiniteSets

VARIABLES history, api_status, run, pc

vars == <<history, api_status, run, pc>>

(***************************************************************************)
(* Bounds of the model.                                                    *)
(***************************************************************************)
\* longest history the model lets a process accumulate
MaxHist == 2
\* the wall clock is read at instants 0, ClockTick, ..., MaxTick * ClockTick
MaxTick == 1
\* seconds between two modelled clock readings (just under half a day)
ClockTick == 43199

(***************************************************************************)
(* Python values.                                                          *)
(***************************************************************************)
\* Python's None where a str is expected
None == "<None>"

\* truthiness of an Optional[str]: None and "" are falsy
Truthy(s) == s # None /\ s # ""

(***************************************************************************)
(* Uploaded files: the declared media type, whether the library that reads *)
(* that format parses the payload, and the text it extracts when it does.  *)
(***************************************************************************)
TextPlain == "text/plain"
DocxType == "application/vnd.openxmlformats-officedocument.wordprocessingml.document"
PdfType == "application/pdf"
PngType == "image/png"

SupportedTypes == {TextPlain, DocxType, PdfType}

\* st.file_uploader returned None: nothing uploaded
NoFile == [type |-> "-", parses |-> FALSE, text |-> ""]

Files ==
    {[type |-> t, parses |-> p, text |-> "doc"] : t \in SupportedTypes, p \in BOOLEAN}
    \cup {[type |-> TextPlain, parses |-> TRUE, text |-> ""]}
    \cup {[type |-> PngType, parses |-> TRUE, text |-> "doc"]}

TypedTexts == {"", "cat"}

MediaChoices == {"AI", "Stock Images"}

(***************************************************************************)
(* Outcomes of requests.get: an exception, or a response with a status     *)
(* code and a body.                                                        *)
(***************************************************************************)
BodyRunning == "{\"status\": \"API is running\"}"
BodyStarting == "{\"status\": \"starting\"}"
BodyDetail == "{\"detail\": \"Internal Server Error\"}"
BodyImages == "[\"http://host/img1.png\"]"
BodyHtml == "<html>Bad Gateway</html>"

Bodies == {BodyRunning, BodyStarting, BodyDetail, BodyImages, BodyHtml}

\* response.json() parses the body
IsJson(b) == b # BodyHtml

\* the parsed body is a dict (has .get)
IsJsonObject(b) == b \in {BodyRunning, BodyStarting, BodyDetail}

\* dict.get("status") of a parsed object
StatusField(b) ==
    IF b = BodyRunning THEN "API is running"
    ELSE IF b = BodyStarting THEN "starting"
    ELSE None

\* st.image accepts the parsed payload (a list of image URLs)
Renderable(b) == b = BodyImages

RequestsExceptions == {"ConnectionError", "Timeout", "RequestException"}

GetExceptions == RequestsExceptions \cup {"Exception"}

StatusCodes == {200, 500}

Response(c, b) == [exc |-> "-", code |-> c, body |-> b]

Raised(e) == [exc |-> e, code |-> 0, body |-> ""]

HttpOutcomes ==
    {Raised(e) : e \in GetExceptions}
    \cup {Response(c, b) : c \in StatusCodes, b \in Bodies}

\* the value None where a Response is expected
NoResponse == [exc |-> "None", code |-> 0, body |-> ""]

\* no request was made
NotCalled == [exc |-> "NotCalled", code |-> 0, body |-> ""]

IsResponse(o) == o.exc = "-"

\* Response.raise_for_status raises HTTPError for 4xx and 5xx
RaisesForStatus(o) == o.code >= 400 /\ o.code < 600

Is2xx(o) == IsResponse(o) /\ o.code >= 200 /\ o.code < 300

(***************************************************************************)
(* check_api_status.  The result is a record: ret is the returned string,  *)
(* exc the exception that escapes the function ("-" when none does).       *)
(* A 2xx body that is not JSON makes response.json() raise; requests from  *)
(* 2.27 on raises a RequestException subclass there (caught), older        *)
(* versions raise a plain ValueError (not caught), so both are possible.   *)
(***************************************************************************)
Returns(s) == [ret |-> s, exc |-> "-"]

Escapes(e) == [ret |-> None, exc |-> e]

check_api_status(o) ==
    IF ~IsResponse(o) THEN
        IF o.exc \in RequestsExceptions
        THEN {Returns("Not Available")}
        ELSE {Escapes(o.exc)}
    ELSE IF RaisesForStatus(o) THEN {Returns("Not Available")}
    ELSE IF ~IsJson(o.body) THEN {Returns("Not Available"), Escapes("ValueError")}
    ELSE IF ~IsJsonObject(o.body) THEN {Escapes("AttributeError")}
    ELSE IF StatusField(o.body) = "API is running" THEN {Returns("Running")}
    ELSE {Returns("Unknown Status")}

(***************************************************************************)
(* The document readers and process_file.  The result is a record: ret is  *)
(* the returned value, err the st.error messages shown, in order.          *)
(***************************************************************************)
Extracted(f, label) ==
    IF f.parses
    THEN [ret |-> f.text, err |-> <<>>]
    ELSE [ret |-> "", err |-> <<label>>]

read_text_file(f) == Extracted(f, "Error reading text file")

read_docx_file(f) == Extracted(f, "Error reading DOCX file")

read_pdf_file(f) == Extracted(f, "Error reading PDF file")

\* process_file with the final else branch lost: any other type is read as text
process_file_NoTypeCheck(f) ==
    IF f.type = DocxType THEN read_docx_file(f)
    ELSE IF f.type = PdfType THEN read_pdf_file(f)
    ELSE read_text_file(f)

process_file(f) ==
    IF f.type = TextPlain THEN read_text_file(f)
    ELSE IF f.type = DocxType THEN read_docx_file(f)
    ELSE IF f.type = PdfType THEN read_pdf_file(f)
    ELSE [ret |-> None, err |-> <<"Unsupported file type">>]

(***************************************************************************)
(* get_image_recommendation.  One GET to /recommend_images; a response of  *)
(* any status code is returned as it is (raise_for_status is not called);  *)
(* an exception of requests.get is reported with st.error and None is      *)
(* returned.                                                               *)
(***************************************************************************)
StatusRequest == [path |-> "/status", query |-> None, use_ai |-> FALSE]

RecommendRequest(query, use_ai) ==
    [path |-> "/recommend_images", query |-> query, use_ai |-> use_ai]

HandlerMessage(e) ==
    IF e = "HTTPError" THEN "HTTP error occurred"
    ELSE IF e = "ConnectionError" THEN "Connection error occurred"
    ELSE IF e = "Timeout" THEN "Timeout error occurred"
    ELSE IF e = "RequestException" THEN "Request error occurred"
    ELSE "An unexpected error occurred"

get_image_recommendation(query, use_ai, o) ==
    IF IsResponse(o)
    THEN [ret |-> o, err |-> <<>>, req |-> RecommendRequest(query, use_ai)]
    ELSE [ret |-> NoResponse, err |-> <<HandlerMessage(o.exc)>>,
          req |-> RecommendRequest(query, use_ai)]

(***************************************************************************)
(* datetime.datetime.now().strftime("%Y-%m-%d %H:%M:%S").  A clock reading *)
(* is a number of seconds after 2024-01-01 00:00:00 local time (less than  *)
(* 31 days); the timestamp is the string's digits, and strings compare     *)
(* lexicographically.                                                      *)
(***************************************************************************)
ClockReadings == {k * ClockTick : k \in 0..MaxTick}

TwoDigits(n) == <<n \div 10, n % 10>>

Strftime(now) ==
    <<2, 0, 2, 4>> \o <<0, 1>> \o TwoDigits(1 + (now \div 86400))
    \o TwoDigits((now % 86400) \div 3600)
    \o TwoDigits((now % 3600) \div 60)
    \o TwoDigits(now % 60)

\* a <= b for two strings of the same length
StrLeq(a, b) ==
    \/ a = b
    \/ \E i \in 1..Len(a) :
          /\ a[i] < b[i]
          /\ \A j \in 1..(i - 1) : a[j] = b[j]

(***************************************************************************)
(* main(): the pieces of one run.                                          *)
(***************************************************************************)
\* EffectiveText keeping the typed text when the extraction yields nothing
EffectiveText_FallBackToTyped(typed, file) ==
    IF file # NoFile /\ Truthy(process_file(file).ret)
    THEN process_file(file).ret
    ELSE typed

\* the text the Submit handler sees: the upload replaces the typed text
EffectiveText(typed, file) ==
    IF file # NoFile THEN process_file(file).ret ELSE typed

\* SubmitGate without the test of api_status
SubmitGate_IgnoringStatus(user_text, status) == Truthy(user_text)

\* the condition of the first branch of the Submit handler
SubmitGate(user_text, status) == Truthy(user_text) /\ status = "Running"

\* the exception raised between the call and the append ("-" when none):
\* .json() on None, .json() on a body that is not JSON, st.image on a
\* payload it cannot render
RenderOutcome(fetched) ==
    IF fetched = NoResponse THEN "AttributeError"
    ELSE IF ~IsJson(fetched.body) THEN "JSONDecodeError"
    ELSE IF ~Renderable(fetched.body) THEN "StreamlitError"
    ELSE "-"

\* the dict appended to history
HistoryEntry(user_text, now) ==
    [text |-> user_text, timestamp |-> Strftime(now)]

\* what the History tab renders
HistoryTab(h) == IF h # <<>> THEN "entries" ELSE "empty"

\* the error of the two elif branches of the Submit handler
SubmitError(user_text, status) ==
    IF ~Truthy(user_text)
    THEN <<"Please enter text or upload a file to get recommendations.">>
    ELSE IF status # "Running"
    THEN <<"Cannot perform recommendations as the API is not running.">>
    ELSE <<>>

FileErrors(file) == IF file # NoFile THEN process_file(file).err ELSE <<>>

(***************************************************************************)
(* The record of a run of main().                                          *)
(*   before    history when main() began                                   *)
(*   sr        outcome of the GET to /status                               *)
(*   status    what check_api_status returned (None when it raised)        *)
(*   typed, file, media, submit   the widget values the run read           *)
(*   user_text the text the Submit handler sees                            *)
(*   rr        outcome of the GET to /recommend_images (NotCalled if none) *)
(*   fetched   what get_image_recommendation returned                      *)
(*   net       the HTTP requests issued, in order                          *)
(*   errors    the st.error messages shown, in order                       *)
(*   exc       the exception that escaped main() ("-" when none)           *)
(*   tab       what the History tab rendered ("-" when not reached)        *)
(*   appended  whether history.append ran                                  *)
(*   stamp     the timestamp computed (<<>> when the clock was not read)   *)
(***************************************************************************)
NoRun ==
    [before |-> <<>>, sr |-> NotCalled, status |-> None,
     typed |-> "", file |-> NoFile, media |-> "-", submit |-> FALSE,
     user_text |-> "", rr |-> NotCalled, fetched |-> NotCalled,
     net |-> <<>>, errors |-> <<>>, exc |-> "-", tab |-> "-",
     appended |-> FALSE, stamp |-> <<>>]

\* line 174: main() starts with the globals h (history) and s0 (api_status)
\* and assigns api_status, unless check_api_status raises
StatusStep(h, s0) ==
    /\ pc = "idle"
    /\ history' = h
    /\ \E sr \in HttpOutcomes : \E st \in check_api_status(sr) :
          IF st.exc # "-"
          THEN /\ api_status' = s0
               /\ run' = [NoRun EXCEPT !.before = h, !.sr = sr,
                                       !.net = <<StatusRequest>>,
                                       !.exc = st.exc]
               /\ pc' = "idle"
          ELSE /\ api_status' = st.ret
               /\ run' = [NoRun EXCEPT !.before = h, !.sr = sr,
                                       !.status = st.ret,
                                       !.net = <<StatusRequest>>]
               /\ pc' = "widgets"

\* lines 203-214: the widgets of the Demo tab and process_file
Widgets ==
    /\ pc = "widgets"
    /\ \E typed \in TypedTexts, file \in Files \cup {NoFile}, media \in MediaChoices :
          run' = [run EXCEPT !.typed = typed, !.file = file, !.media = media,
                             !.user_text = EffectiveText(typed, file),
                             !.errors = FileErrors(file)]
    /\ pc' = "button"
    /\ UNCHANGED <<history, api_status>>

\* line 216: the button was not pressed in this run
NoSubmit ==
    /\ pc = "button"
    /\ pc' = "tab"
    /\ UNCHANGED <<history, api_status, run>>

\* lines 244-247: Submit with no text, or with the API not running
SubmitRefused ==
    /\ pc = "button"
    /\ ~SubmitGate(run.user_text, api_status)
    /\ run' = [run EXCEPT !.submit = TRUE,
                          !.errors = @ \o SubmitError(run.user_text, api_status)]
    /\ pc' = "tab"
    /\ UNCHANGED <<history, api_status>>

\* lines 217-242: Submit with text and the API running
SubmitCall ==
    /\ pc = "button"
    /\ SubmitGate(run.user_text, api_status)
    /\ \E rr \in HttpOutcomes :
          LET g == get_image_recommendation(run.user_text, run.media = "AI", rr)
              raised == RenderOutcome(g.ret)
              called == [run EXCEPT !.submit = TRUE, !.rr = rr,
                                    !.fetched = g.ret,
                                    !.net = @ \o <<g.req>>,
                                    !.errors = @ \o g.err]
          IN IF raised # "-"
             THEN /\ history' = history
                  /\ run' = [called EXCEPT !.exc = raised]
                  /\ pc' = "idle"
             ELSE \E now \in ClockReadings :
                     /\ Len(history) < MaxHist
                     /\ history' = Append(history, HistoryEntry(run.user_text, now))
                     /\ run' = [called EXCEPT !.appended = TRUE,
                                              !.stamp = Strftime(now)]
                     /\ pc' = "tab"
    /\ UNCHANGED api_status

\* lines 249-267: the History tab; the run ends
HistoryTabStep ==
    /\ pc = "tab"
    /\ run' = [run EXCEPT !.tab = HistoryTab(history)]
    /\ pc' = "idle"
    /\ UNCHANGED <<history, api_status>>

(***************************************************************************)
(* The two ways a run of main() starts.  Streamlit executes the whole      *)
(* script for every interaction: the module's top level runs again (which  *)
(* rebinds history to [] and api_status to "Unknown") and then main().     *)
(* A host that has imported the module can also call main() on the module  *)
(* as it is.                                                               *)
(***************************************************************************)
Init ==
    /\ history = <<>>
    /\ api_status = "Unknown"
    /\ run = NoRun
    /\ pc = "idle"

RunScript == StatusStep(<<>>, "Unknown")

CallMain == StatusStep(history, api_status)

Next ==
    \/ RunScript
    \/ CallMain
    \/ Widgets
    \/ NoSubmit
    \/ SubmitRefused
    \/ SubmitCall
    \/ HistoryTabStep

Spec == Init /\ [][Next]_vars

(***************************************************************************)
(* Vocabulary of the properties.                                           *)
(***************************************************************************)
\* the run issued a GET to /recommend_images
RecRequested == \E i \in DOMAIN run.net : run.net[i].path = "/recommend_images"

\* the run has read the widgets of the Demo tab
WidgetsRead == run.media # "-"

\* the run has ended, by reaching the end of main() or by an exception
RunEnded == pc = "idle" /\ run.net # <<>>

Shown(msg) == \E i \in DOMAIN run.errors : run.errors[i] = msg

SubmitErrorShown ==
    \/ Shown("Please enter text or upload a file to get recommendations.")
    \/ Shown("Cannot perform recommendations as the API is not running.")

IsPrefix(a, b) == Len(a) <= Len(b) /\ \A i \in 1..Len(a) : a[i] = b[i]

\* the upload of the run is one whose extraction fails: process_file
\* returns None (unsupported type) or "" (the reader raised)
ExtractionFails == run.file.type \notin SupportedTypes \/ ~run.file.parses

(***************************************************************************)
(* C1.  /recommend_images is requested only in a run whose status check    *)
(* returned "Running" and whose query text is non-empty; a Submit with any *)
(* other status, or with an empty text, shows an error, requests no        *)
(* recommendation and leaves history as it was when main() began.          *)
(***************************************************************************)
C1_CallOnlyWhenRunning ==
    /\ RecRequested => (run.status = "Running" /\ Truthy(run.user_text))
    /\ (run.submit /\ (run.status # "Running" \/ ~Truthy(run.user_text)))
          => (SubmitErrorShown /\ ~RecRequested /\ history = run.before)

\* a Submit with text, refused because the status is not "Running", after
\* an earlier Submit had filled the history
C1_Witness ==
    /\ RunEnded
    /\ run.submit
    /\ Truthy(run.user_text)
    /\ run.status = "Unknown Status"
    /\ run.before # <<>>
    /\ run.tab = "entries"
    /\ Shown("Cannot perform recommendations as the API is not running.")

(***************************************************************************)
(* C10.  With a file uploaded, the query text is what process_file made of *)
(* the file, whatever was typed; when the extraction fails (None for an    *)
(* unsupported type, "" for a reader error) a Submit requests no           *)
(* recommendation and appends nothing to history.                          *)
(***************************************************************************)
C10_UploadReplacesTypedText ==
    (WidgetsRead /\ run.file # NoFile) =>
        /\ run.user_text =
              (IF run.file.type \notin SupportedTypes THEN None
               ELSE IF run.file.parses THEN run.file.text
               ELSE "")
        /\ (run.submit /\ ExtractionFails)
              => (~RecRequested /\ history = run.before /\ ~run.appended)

\* a Submit with typed text, status "Running" and an upload the reader
\* could not parse
C10_Witness ==
    /\ RunEnded
    /\ run.submit
    /\ run.typed = "cat"
    /\ run.status = "Running"
    /\ run.file.type = PdfType
    /\ ~run.file.parses
    /\ run.user_text = ""
    /\ Shown("Please enter text or upload a file to get recommendations.")

(***************************************************************************)
(* C6.  As claimed: a run whose upload has a declared type outside the     *)
(* three supported ones issues no HTTP request at all and shows            *)
(* process_file's error.                                                   *)
(***************************************************************************)
C6_Original ==
    (WidgetsRead /\ run.file # NoFile /\ run.file.type \notin SupportedTypes)
        => (run.net = <<>> /\ Shown("Unsupported file type"))

(***************************************************************************)
(* C6, amended.  A run whose upload has a declared type outside the three  *)
(* supported ones never requests /recommend_images and appends nothing:    *)
(* process_file shows "Unsupported file type" and yields None.  The one    *)
(* request of the run is the GET to /status that main() issues first,      *)
(* before it looks at the upload; a run that ends in the status check      *)
(* issues that request only.                                               *)
(***************************************************************************)
C6_NoRecommendationForUnsupportedType ==
    /\ (WidgetsRead /\ run.file # NoFile /\ run.file.type \notin SupportedTypes)
          => /\ run.net = <<StatusRequest>>
             /\ ~RecRequested
             /\ run.user_text = None
             /\ Shown("Unsupported file type")
             /\ history = run.before
    /\ (run.net # <<>> /\ ~WidgetsRead) => run.net = <<StatusRequest>>

\* a Submit with a PNG upload, typed text and status "Running"
C6_Witness ==
    /\ RunEnded
    /\ run.submit
    /\ run.file.type = PngType
    /\ run.typed = "cat"
    /\ run.status = "Running"
    /\ run.tab # "-"

(***************************************************************************)
(* C2.  As claimed: history.append runs only in a Submit with a non-empty  *)
(* text whose recommendation call succeeded (a 2xx response); a Submit     *)
(* whose call got a non-2xx response or an exception leaves history as it  *)
(* was.                                                                    *)
(***************************************************************************)
C2_Original ==
    /\ run.appended => (Truthy(run.user_text) /\ Is2xx(run.rr))
    /\ (RecRequested /\ ~Is2xx(run.rr)) => history = run.before

(***************************************************************************)
(* C3.  As claimed: for a non-2xx response get_image_recommendation        *)
(* reports the HTTP error and returns None.                                *)
(***************************************************************************)
C3_Original ==
    (RecRequested /\ IsResponse(run.rr) /\ ~Is2xx(run.rr))
        => (run.fetched = NoResponse /\ Shown("HTTP error occurred"))

(***************************************************************************)
(* C4.  As claimed: when requests.get raises inside                        *)
(* get_image_recommendation the failure is reported and the run goes on to *)
(* the end of main(), through the History tab, with no exception escaping. *)
(***************************************************************************)
C4_Original ==
    (RunEnded /\ RecRequested /\ run.rr.exc \in GetExceptions)
        => (run.errors # <<>> /\ run.exc = "-" /\ run.tab # "-")

(***************************************************************************)
(* C5.  As claimed: a Submit whose call succeeded (a 2xx response whose    *)
(* payload was parsed and displayed) appends exactly one entry, and the    *)
(* timestamp of that entry is not smaller than the timestamp of the entry  *)
(* before it.                                                              *)
(***************************************************************************)
C5_Original ==
    (RecRequested /\ Is2xx(run.rr) /\ RenderOutcome(run.fetched) = "-")
        => /\ Len(history) = Len(run.before) + 1
           /\ IsPrefix(run.before, history)
           /\ run.before # <<>>
                 => StrLeq(run.before[Len(run.before)].timestamp,
                           history[Len(history)].timestamp)

(***************************************************************************)
(* C7.  As claimed: across runs the history only grows at its end: the     *)
(* list before any step is a prefix of the list after it.                  *)
(***************************************************************************)
C7_Original == [][IsPrefix(history, history')]_vars

(***************************************************************************)
(* C8.  As claimed: the entry appended by a successful Submit holds the    *)
(* submitted text and, besides the text and the timestamp, the payload of  *)
(* the response.                                                           *)
(***************************************************************************)
C8_Original ==
    run.appended =>
        LET e == history[Len(history)]
        IN /\ e.text = run.user_text
           /\ \E k \in DOMAIN e \ {"text", "timestamp"} : e[k] = run.rr.body

(***************************************************************************)
(* C9.  As claimed: whatever the GET to /status does, check_api_status     *)
(* returns one of its three strings and raises nothing: "Running" exactly  *)
(* for a 2xx response whose status field is "API is running",              *)
(* "Not Available" when the request fails, "Unknown Status" for any other  *)
(* 2xx response.                                                           *)
(***************************************************************************)
C9_Original ==
    run.net # <<>> =>
        /\ run.status \in {"Running", "Not Available", "Unknown Status"}
        /\ run.status = "Running"
              <=> (Is2xx(run.sr) /\ IsJsonObject(run.sr.body)
                   /\ StatusField(run.sr.body) = "API is running")
        /\ ~Is2xx(run.sr) => run.status = "Not Available"
        /\ (Is2xx(run.sr) /\ run.status # "Running")
              => run.status = "Unknown Status"

====
